---- MODULE Spec2Model ----
(***************************************************************************)
(* The authentication fixture of Test200126 (fixtures/auth.fixture.ts):    *)
(* a cache-with-expiry of the persisted browser state at .auth/user.json,  *)
(* shared without locking by the parallel Playwright workers.              *)
(*                                                                         *)
(* Every file-system call and every awaited browser call of the fixture is *)
(* one atomic step of a worker; the steps of different workers interleave. *)
(***************************************************************************)
EXTENDS Integers, FiniteSets, Sequences, TLC

\* ------------------------------------------------------------ bounds
\* Clock advances per behaviour.
MaxTicks == 1
\* Fixture acquisitions per run, all workers together.
MaxAcq == 2

\* ------------------------------------------------------------ constants
\* Worker processes of the test runner (fullyParallel, workers undefined).
Workers == {"w1", "w2"}

\* The fixtures that acquire an authenticated context.  Their statements are
\* the same up to and including browser.newContext({ storageState }), so which
\* of the two a worker is running is resolved when that statement has run.
Fixtures == {"page", "authenticatedContext"}

\* const AUTH_STATE_MAX_AGE_MS = 60 * 60 * 1000
AUTH_STATE_MAX_AGE_MS == 60 * 60 * 1000

\* The clock advances by a whole freshness window or by one millisecond more.
TimeSteps == {AUTH_STATE_MAX_AGE_MS, AUTH_STATE_MAX_AGE_MS + 1}

\* A credential value as the application judges it: "" is unset or empty
\* (process.env.X || ''), "valid" is accepted, "wrong" is rejected.
CredValues == {"", "valid", "wrong"}

\* The environment variables of the process configuration.
EnvNames == {"ADMIN_USERNAME", "ADMIN_PASSWORD",
             "TEST_USER_ADMIN_USERNAME", "TEST_USER_ADMIN_PASSWORD"}

MkEnv(au, ap, tu, tp) ==
    [n \in EnvNames |->
        CASE n = "ADMIN_USERNAME" -> au
          [] n = "ADMIN_PASSWORD" -> ap
          [] n = "TEST_USER_ADMIN_USERNAME" -> tu
          [] n = "TEST_USER_ADMIN_PASSWORD" -> tp]

\* The process configurations explored.
EnvConfigs == { MkEnv("", "", "valid", "valid"),
                MkEnv("valid", "valid", "", ""),
                MkEnv("", "", "valid", "wrong") }

\* No file at STORAGE_STATE_PATH.
NoFile == [exists |-> FALSE, mtime |-> 0, by |-> <<"-", 0>>,
           auth |-> FALSE, content |-> "none"]

\* A state file left by an earlier run of the suite, written at time 0.
EarlierFile == [exists |-> TRUE, mtime |-> 0, by |-> <<"earlier", 0>>,
                auth |-> TRUE, content |-> "complete"]

VARIABLES
    now,          \* Date.now(), in ms
    ticks,        \* clock advances so far
    env,          \* process.env
    file,         \* the directory entry at STORAGE_STATE_PATH
    dirExists,    \* the .auth directory exists
    pc,           \* each worker's position in its fixture
    kind,         \* the fixture a worker is running, once the two differ
    acq,          \* number of the acquisition a worker is in (0: none yet)
    started,      \* acquisitions started so far in the run
    staleWhy,     \* outcome of the check of line 369 / 410
    startState,   \* what the path held at the moment the check ended
    seenBy,       \* the capture the file held at the moment the check ended
    loginCalls,   \* calls of setupAuthState in this acquisition
    setupCtx,     \* the unauthenticated setup context
    ctx,          \* the context opened from the persisted state
    ctxFrom,      \* the blob that context was opened from
    lastFrom,     \* the blob the worker's previous acquisition opened its context from
    handed,       \* what use() handed to the test
    testResult,   \* how the test body that ran inside use() ended
    err,          \* the step whose error the fixture throws
    navigated,    \* the setup page went to the login URL
    filledUser,   \* value filled into [data-test="username"]
    filledPass,   \* value filled into [data-test="password"]
    submitted,    \* the login button was clicked
    session,      \* the setup context's session is authenticated
    fd,           \* the writer's open file: none, attached to the path, detached
    unlinkFailed, \* unlinkSync threw in this acquisition
    running,      \* what the behaviour runs: the fixtures, or a call of one helper
    ru,           \* a call of retryUntil
    fw,           \* a call of fillWithRetry
    wt,           \* a call of withTimeout
    wr,           \* a call of waitForApiResponse
    lp,           \* a call of LoginPage.loginWithCredentials
    ia,           \* a call of isAuthenticated
    cas           \* a call of clearAuthStates on a directory with several entries

clockVars == <<now, ticks>>
fsVars == <<file, dirExists>>
checkVars == <<staleWhy, startState, seenBy>>
loginVars == <<loginCalls, navigated, filledUser, filledPass, submitted, session>>
ctxVars == <<setupCtx, ctx, ctxFrom, handed, testResult>>
ghostVars == <<unlinkFailed, lastFrom>>
authVars == <<now, ticks, env, file, dirExists, pc, kind, acq, started, staleWhy,
          startState, seenBy, loginCalls, setupCtx, ctx, ctxFrom, handed, testResult, err,
          navigated,
          filledUser, filledPass, submitted, session, fd, unlinkFailed,
          lastFrom>>
helperVars == <<ru, fw, wt, wr, lp, ia, cas>>
\* What no step of the fixtures changes.
fixedVars == <<env, running, helperVars>>
vars == <<authVars, running, helperVars>>

\* The value of a helper's variable in a behaviour that does not call it.
NotCalled == [pc |-> "notCalled"]

HelpersNotCalled ==
    /\ ru = NotCalled /\ fw = NotCalled /\ wt = NotCalled /\ wr = NotCalled
    /\ lp = NotCalled /\ ia = NotCalled /\ cas = NotCalled

\* ------------------------------------------------------------ helpers
\* fs.existsSync(STORAGE_STATE_PATH)
existsSync(f) == f.exists

\* AgeStale with the comparison made inclusive.
AgeStaleGE(mtimeMs, t) == (t - mtimeMs) >= AUTH_STATE_MAX_AGE_MS

\* ageMs > AUTH_STATE_MAX_AGE_MS, with ageMs = Date.now() - stats.mtimeMs
AgeStale(mtimeMs, t) == (t - mtimeMs) > AUTH_STATE_MAX_AGE_MS

\* isAuthStateStale(), evaluated in one piece on a path that can be read.
isAuthStateStale(f, t) ==
    IF ~existsSync(f) THEN TRUE ELSE AgeStale(f.mtime, t)

\* What the path holds: no file, a file written within the freshness window,
\* or an older one.
PathState ==
    IF ~file.exists THEN "absent"
    ELSE IF now <= file.mtime + AUTH_STATE_MAX_AGE_MS THEN "fresh"
    ELSE "old"

\* A worker is inside a fixture (between its start and its end).
Active(w) == pc[w] \notin {"idle", "done", "failed"}

\* The path's name is removed: a file a writer holds open stays open, detached
\* from the path.
Detach == [u \in Workers |-> IF fd[u] = "attached" THEN "detached" ELSE fd[u]]

\* The state of the fixtures before the first acquisition, but for env.
AuthInit ==
    /\ now = 0
    /\ ticks = 0
    /\ file \in {NoFile, EarlierFile}
    /\ dirExists = file.exists
    /\ pc = [w \in Workers |-> "idle"]
    /\ kind = [w \in Workers |-> "either"]
    /\ acq = [w \in Workers |-> 0]
    /\ started = 0
    /\ staleWhy = [w \in Workers |-> "none"]
    /\ startState = [w \in Workers |-> "none"]
    /\ seenBy = [w \in Workers |-> NoFile.by]
    /\ loginCalls = [w \in Workers |-> 0]
    /\ setupCtx = [w \in Workers |-> "none"]
    /\ ctx = [w \in Workers |-> "none"]
    /\ ctxFrom = [w \in Workers |-> NoFile]
    /\ handed = [w \in Workers |-> "none"]
    /\ testResult = [w \in Workers |-> "none"]
    /\ err = [w \in Workers |-> "none"]
    /\ navigated = [w \in Workers |-> FALSE]
    /\ filledUser = [w \in Workers |-> "-"]
    /\ filledPass = [w \in Workers |-> "-"]
    /\ submitted = [w \in Workers |-> FALSE]
    /\ session = [w \in Workers |-> FALSE]
    /\ fd = [w \in Workers |-> "none"]
    /\ unlinkFailed = [w \in Workers |-> FALSE]
    /\ lastFrom = [w \in Workers |-> NoFile]

Init ==
    /\ running = "fixtures"
    /\ HelpersNotCalled
    /\ env \in EnvConfigs
    /\ AuthInit

\* ------------------------------------------------------------ the clock
Tick ==
    /\ ticks < MaxTicks
    /\ \E dt \in TimeSteps : now' = now + dt
    /\ ticks' = ticks + 1
    /\ UNCHANGED <<fixedVars, fsVars, pc, kind, acq, started, checkVars, loginVars, ctxVars, err,
                   fd, ghostVars>>

\* ------------------------------------------------------------ the fixture
\* The test runner enters the page or the authenticatedContext fixture.
Start(w) ==
    /\ pc[w] \in {"idle", "done", "failed"}
    /\ started < MaxAcq
    /\ started' = started + 1
    /\ kind' = [kind EXCEPT ![w] = "either"]
    /\ acq' = [acq EXCEPT ![w] = started + 1]
    /\ pc' = [pc EXCEPT ![w] = "chk_exists"]
    /\ staleWhy' = [staleWhy EXCEPT ![w] = "none"]
    /\ startState' = [startState EXCEPT ![w] = "none"]
    /\ seenBy' = [seenBy EXCEPT ![w] = NoFile.by]
    /\ loginCalls' = [loginCalls EXCEPT ![w] = 0]
    /\ setupCtx' = [setupCtx EXCEPT ![w] = "none"]
    /\ ctx' = [ctx EXCEPT ![w] = "none"]
    /\ ctxFrom' = [ctxFrom EXCEPT ![w] = NoFile]
    /\ handed' = [handed EXCEPT ![w] = "none"]
    /\ testResult' = [testResult EXCEPT ![w] = "none"]
    /\ err' = [err EXCEPT ![w] = "none"]
    /\ navigated' = [navigated EXCEPT ![w] = FALSE]
    /\ filledUser' = [filledUser EXCEPT ![w] = "-"]
    /\ filledPass' = [filledPass EXCEPT ![w] = "-"]
    /\ submitted' = [submitted EXCEPT ![w] = FALSE]
    /\ session' = [session EXCEPT ![w] = FALSE]
    /\ fd' = [fd EXCEPT ![w] = "none"]
    /\ unlinkFailed' = [unlinkFailed EXCEPT ![w] = FALSE]
    /\ lastFrom' = [lastFrom EXCEPT ![w] = ctxFrom[w]]
    /\ UNCHANGED <<clockVars, fixedVars, fsVars>>

\* A step of the fixture threw: remember which, and go where the throw leads.
Throw(w, step, next) ==
    /\ err' = [err EXCEPT ![w] = step]
    /\ pc' = [pc EXCEPT ![w] = next]

\* The check ends: record its outcome and what the path held at that moment.
Decide(w, why, next) ==
    /\ staleWhy' = [staleWhy EXCEPT ![w] = why]
    /\ startState' = [startState EXCEPT ![w] = PathState]
    /\ seenBy' = [seenBy EXCEPT ![w] = file.by]
    /\ pc' = [pc EXCEPT ![w] = next]

\* if (!fs.existsSync(STORAGE_STATE_PATH) || ...
ChkExists(w) ==
    /\ pc[w] = "chk_exists"
    /\ IF ~existsSync(file)
         THEN Decide(w, "absent", "clr_exists")
         ELSE /\ pc' = [pc EXCEPT ![w] = "stale_exists"]
              /\ UNCHANGED checkVars
    /\ UNCHANGED <<clockVars, fixedVars, fsVars, kind, acq, started, loginVars, ctxVars, err,
                   fd, ghostVars>>

\* StaleExists returning false for a missing file.
StaleExistsFalse(w) ==
    /\ pc[w] = "stale_exists"
    /\ IF ~existsSync(file)
         THEN Decide(w, "fresh", "new_ctx")
         ELSE /\ pc' = [pc EXCEPT ![w] = "stale_stat"]
              /\ UNCHANGED checkVars
    /\ UNCHANGED <<clockVars, fixedVars, fsVars, kind, acq, started, loginVars, ctxVars, err,
                   fd, ghostVars>>

\* isAuthStateStale: if (!fs.existsSync(STORAGE_STATE_PATH)) return true;
StaleExists(w) ==
    /\ pc[w] = "stale_exists"
    /\ IF ~existsSync(file)
         THEN Decide(w, "absent288", "clr_exists")
         ELSE /\ pc' = [pc EXCEPT ![w] = "stale_stat"]
              /\ UNCHANGED checkVars
    /\ UNCHANGED <<clockVars, fixedVars, fsVars, kind, acq, started, loginVars, ctxVars, err,
                   fd, ghostVars>>

\* StaleStat without the try/catch: the error of statSync escapes.
StaleStatNoCatch(w) ==
    /\ pc[w] = "stale_stat"
    /\ IF ~file.exists
         THEN /\ Throw(w, "stat", "failed")
              /\ UNCHANGED checkVars
         ELSE /\ IF AgeStale(file.mtime, now)
                   THEN Decide(w, "age", "clr_exists")
                   ELSE Decide(w, "fresh", "new_ctx")
              /\ UNCHANGED err
    /\ UNCHANGED <<clockVars, fixedVars, fsVars, kind, acq, started, loginVars, ctxVars,
                   fd, ghostVars>>

\* StaleStat whose caller regenerates whatever isAuthStateStale returned.
StaleStatRegenerates(w) ==
    /\ pc[w] = "stale_stat"
    /\ IF ~file.exists
         THEN Decide(w, "statThrew", "clr_exists")
         ELSE IF AgeStale(file.mtime, now)
                THEN Decide(w, "age", "clr_exists")
                ELSE Decide(w, "fresh", "clr_exists")
    /\ UNCHANGED <<clockVars, fixedVars, fsVars, kind, acq, started, loginVars, ctxVars, err,
                   fd, ghostVars>>

\* StaleStat whose caller opens its context from a file it found too old.
StaleStatUsesStale(w) ==
    /\ pc[w] = "stale_stat"
    /\ IF ~file.exists
         THEN Decide(w, "statThrew", "clr_exists")
         ELSE IF AgeStale(file.mtime, now)
                THEN Decide(w, "age", "new_ctx")
                ELSE Decide(w, "fresh", "new_ctx")
    /\ UNCHANGED <<clockVars, fixedVars, fsVars, kind, acq, started, loginVars, ctxVars, err,
                   fd, ghostVars>>

\* StaleStat that takes a file of any age for fresh.
StaleStatNeverStale(w) ==
    /\ pc[w] = "stale_stat"
    /\ IF ~file.exists
         THEN Decide(w, "statThrew", "clr_exists")
         ELSE Decide(w, "fresh", "new_ctx")
    /\ UNCHANGED <<clockVars, fixedVars, fsVars, kind, acq, started, loginVars, ctxVars, err,
                   fd, ghostVars>>

\* isAuthStateStale: statSync, Date.now(), the comparison, and the catch.
\* statSync throws ENOENT when another worker has removed the file since the
\* existence check; the catch turns the error into `true`.
StaleStat(w) ==
    /\ pc[w] = "stale_stat"
    /\ IF ~file.exists
         THEN Decide(w, "statThrew", "clr_exists")
         ELSE IF AgeStale(file.mtime, now)
                THEN Decide(w, "age", "clr_exists")
                ELSE Decide(w, "fresh", "new_ctx")
    /\ UNCHANGED <<clockVars, fixedVars, fsVars, kind, acq, started, loginVars, ctxVars, err,
                   fd, ghostVars>>

\* ClrExists that never goes on to delete the file.
ClrExistsSkips(w) ==
    /\ pc[w] = "clr_exists"
    /\ pc' = [pc EXCEPT ![w] = "setup_ctx"]
    /\ UNCHANGED <<clockVars, fixedVars, fsVars, kind, acq, started, checkVars, loginVars, ctxVars,
                   err, fd, ghostVars>>

\* clearAuthState: if (fs.existsSync(STORAGE_STATE_PATH)) ...
ClrExists(w) ==
    /\ pc[w] = "clr_exists"
    /\ pc' = [pc EXCEPT ![w] = IF existsSync(file) THEN "clr_unlink" ELSE "setup_ctx"]
    /\ UNCHANGED <<clockVars, fixedVars, fsVars, kind, acq, started, checkVars, loginVars, ctxVars,
                   err, fd, ghostVars>>

\* ClrUnlink without the try/catch: the error of unlinkSync escapes.
ClrUnlinkNoCatch(w) ==
    /\ pc[w] = "clr_unlink"
    /\ \E ok \in BOOLEAN :
         IF file.exists /\ ok
           THEN /\ file' = NoFile
                /\ fd' = Detach
                /\ pc' = [pc EXCEPT ![w] = "setup_ctx"]
                /\ UNCHANGED <<unlinkFailed, err>>
           ELSE /\ unlinkFailed' = [unlinkFailed EXCEPT ![w] = TRUE]
                /\ Throw(w, "unlink", "failed")
                /\ UNCHANGED <<file, fd>>
    /\ UNCHANGED <<clockVars, fixedVars, dirExists, kind, acq, started, checkVars,
                   loginVars, ctxVars, lastFrom>>

\* clearAuthState: fs.unlinkSync(STORAGE_STATE_PATH) inside try { } catch { }.
\* It throws when the file is gone by now (ENOENT) or may not be removed
\* (EACCES, EPERM); either error is ignored.
ClrUnlink(w) ==
    /\ pc[w] = "clr_unlink"
    /\ \E ok \in BOOLEAN :
         IF file.exists /\ ok
           THEN /\ file' = NoFile
                /\ fd' = Detach
                /\ UNCHANGED unlinkFailed
           ELSE /\ unlinkFailed' = [unlinkFailed EXCEPT ![w] = TRUE]
                /\ UNCHANGED <<file, fd>>
    /\ pc' = [pc EXCEPT ![w] = "setup_ctx"]
    /\ UNCHANGED <<clockVars, fixedVars, dirExists, kind, acq, started, checkVars,
                   loginVars, ctxVars, err, lastFrom>>

\* const setupContext = await browser.newContext();
SetupCtx(w) ==
    /\ pc[w] = "setup_ctx"
    /\ \E ok \in BOOLEAN :
         IF ok
           THEN /\ setupCtx' = [setupCtx EXCEPT ![w] = "open"]
                /\ pc' = [pc EXCEPT ![w] = "setup_page"]
                /\ UNCHANGED err
           ELSE /\ Throw(w, "setupCtx", "failed")
                /\ UNCHANGED setupCtx
    /\ UNCHANGED <<clockVars, fixedVars, fsVars, kind, acq, started, checkVars, loginVars, ctx,
                   ctxFrom, handed, testResult, fd, ghostVars>>

\* SetupPage after which the login starts at the form, without navigating.
SetupPageSkipsNav(w) ==
    /\ pc[w] = "setup_page"
    /\ \E ok \in BOOLEAN :
         IF ok
           THEN /\ pc' = [pc EXCEPT ![w] = "login_user"]
                /\ UNCHANGED err
           ELSE Throw(w, "setupPage", "failed")
    /\ UNCHANGED <<clockVars, fixedVars, fsVars, kind, acq, started, checkVars, loginVars, ctxVars,
                   fd, ghostVars>>

\* const setupPage = await setupContext.newPage();   (outside the try)
SetupPage(w) ==
    /\ pc[w] = "setup_page"
    /\ \E ok \in BOOLEAN :
         IF ok
           THEN /\ pc' = [pc EXCEPT ![w] = "login_nav"]
                /\ UNCHANGED err
           ELSE Throw(w, "setupPage", "failed")
    /\ UNCHANGED <<clockVars, fixedVars, fsVars, kind, acq, started, checkVars, loginVars, ctxVars,
                   fd, ghostVars>>

\* process.env.X || ''
EnvOrEmpty(name) == env[name]

\* The application accepts the submitted form.
Accepts(user, pass) == user = "valid" /\ pass = "valid"

\* setupAuthState is entered: new LoginPage(page); await loginPage.navigateToPage()
\* (page.goto(url), then waitForLoadState('domcontentloaded')).
LoginNav(w) ==
    /\ pc[w] = "login_nav"
    /\ loginCalls' = [loginCalls EXCEPT ![w] = @ + 1]
    /\ \E outcome \in {"ok", "gotoThrows", "loadThrows"} :
         /\ navigated' = [navigated EXCEPT ![w] = outcome # "gotoThrows"]
         /\ IF outcome = "ok"
              THEN /\ pc' = [pc EXCEPT ![w] = "login_user"]
                   /\ UNCHANGED err
              ELSE Throw(w, "navigate", "setup_close")
    /\ UNCHANGED <<clockVars, fixedVars, fsVars, kind, acq, started, checkVars, filledUser,
                   filledPass, submitted, session, ctxVars, fd, ghostVars>>

\* await loginPage.inputLogin.fill(process.env.TEST_USER_ADMIN_USERNAME || '');
LoginUser(w) ==
    /\ pc[w] = "login_user"
    /\ \E ok \in BOOLEAN :
         IF ok
           THEN /\ filledUser' = [filledUser EXCEPT ![w] =
                                      EnvOrEmpty("TEST_USER_ADMIN_USERNAME")]
                /\ pc' = [pc EXCEPT ![w] = "login_pass"]
                /\ UNCHANGED err
           ELSE /\ Throw(w, "fillUser", "setup_close")
                /\ UNCHANGED filledUser
    /\ UNCHANGED <<clockVars, fixedVars, fsVars, kind, acq, started, checkVars, loginCalls,
                   navigated, filledPass, submitted, session, ctxVars, fd, ghostVars>>

\* await loginPage.inputPassword.fill(process.env.TEST_USER_ADMIN_PASSWORD || '');
LoginPass(w) ==
    /\ pc[w] = "login_pass"
    /\ \E ok \in BOOLEAN :
         IF ok
           THEN /\ filledPass' = [filledPass EXCEPT ![w] =
                                      EnvOrEmpty("TEST_USER_ADMIN_PASSWORD")]
                /\ pc' = [pc EXCEPT ![w] = "login_click"]
                /\ UNCHANGED err
           ELSE /\ Throw(w, "fillPass", "setup_close")
                /\ UNCHANGED filledPass
    /\ UNCHANGED <<clockVars, fixedVars, fsVars, kind, acq, started, checkVars, loginCalls,
                   navigated, filledUser, submitted, session, ctxVars, fd, ghostVars>>

\* LoginClick whose error is swallowed: the login goes on to persist the state.
LoginClickSwallow(w) ==
    /\ pc[w] = "login_click"
    /\ \E ok \in BOOLEAN :
         IF ok
           THEN /\ submitted' = [submitted EXCEPT ![w] = TRUE]
                /\ session' = [session EXCEPT ![w] =
                                  Accepts(filledUser[w], filledPass[w])]
                /\ pc' = [pc EXCEPT ![w] = "login_wait"]
                /\ UNCHANGED err
           ELSE /\ Throw(w, "click", "login_mkdir")
                /\ UNCHANGED <<submitted, session>>
    /\ UNCHANGED <<clockVars, fixedVars, fsVars, kind, acq, started, checkVars, loginCalls,
                   navigated, filledUser, filledPass, ctxVars, fd, ghostVars>>

\* await loginPage.btnLogin.click();  the application logs the session in when
\* it accepts the form, and otherwise stays on the login page with an error.
LoginClick(w) ==
    /\ pc[w] = "login_click"
    /\ \E ok \in BOOLEAN :
         IF ok
           THEN /\ submitted' = [submitted EXCEPT ![w] = TRUE]
                /\ session' = [session EXCEPT ![w] =
                                  Accepts(filledUser[w], filledPass[w])]
                /\ pc' = [pc EXCEPT ![w] = "login_wait"]
                /\ UNCHANGED err
           ELSE /\ Throw(w, "click", "setup_close")
                /\ UNCHANGED <<submitted, session>>
    /\ UNCHANGED <<clockVars, fixedVars, fsVars, kind, acq, started, checkVars, loginCalls,
                   navigated, filledUser, filledPass, ctxVars, fd, ghostVars>>

\* await page.waitForLoadState('networkidle');  it waits for the network to
\* go quiet, whatever page the click led to.
LoginWait(w) ==
    /\ pc[w] = "login_wait"
    /\ \E ok \in BOOLEAN :
         IF ok
           THEN /\ pc' = [pc EXCEPT ![w] = "login_mkdir"]
                /\ UNCHANGED err
           ELSE Throw(w, "wait", "setup_close")
    /\ UNCHANGED <<clockVars, fixedVars, fsVars, kind, acq, started, checkVars, loginVars, ctxVars,
                   fd, ghostVars>>

\* if (!fs.existsSync(authDir)) fs.mkdirSync(authDir, { recursive: true });
LoginMkdir(w) ==
    /\ pc[w] = "login_mkdir"
    /\ \E ok \in BOOLEAN :
         IF dirExists \/ ok
           THEN /\ dirExists' = TRUE
                /\ pc' = [pc EXCEPT ![w] = "login_save"]
                /\ UNCHANGED err
           ELSE /\ Throw(w, "mkdir", "setup_close")
                /\ UNCHANGED dirExists
    /\ UNCHANGED <<clockVars, fixedVars, file, kind, acq, started, checkVars, loginVars,
                   ctxVars, fd, ghostVars>>

\* The bytes of one capture of a context's storage state.
Blob(w) == [by |-> <<w, acq[w]>>, auth |-> session[w]]

\* page.context().storageState({ path }): the state is captured and the file is
\* opened for writing, which creates it or truncates the one that is there.
SaveOpen(w) ==
    /\ pc[w] = "login_save"
    /\ \E ok \in BOOLEAN :
         IF ok
           THEN /\ file' = [exists |-> TRUE, mtime |-> now, by |-> <<"-", 0>>,
                            auth |-> FALSE, content |-> "partial"]
                /\ fd' = [fd EXCEPT ![w] = "attached"]
                /\ pc' = [pc EXCEPT ![w] = "login_write"]
                /\ UNCHANGED err
           ELSE /\ Throw(w, "save", "setup_close")
                /\ UNCHANGED <<file, fd>>
    /\ UNCHANGED <<clockVars, fixedVars, dirExists, kind, acq, started, checkVars,
                   loginVars, ctxVars, ghostVars>>

\* storageState({ path }), continued: the blob is written at offset 0 of the open
\* file and the file is closed.  The bytes reach the path only while the path
\* still names the opened file; over bytes another writer put there since the
\* truncation they leave that writer's tail behind unless they cover it.
SaveWrite(w) ==
    /\ pc[w] = "login_write"
    /\ \E outcome \in {"covers", "shorter", "throws"} :
         IF outcome = "throws"
           THEN /\ Throw(w, "save", "setup_close")
                /\ UNCHANGED file
           ELSE /\ IF fd[w] = "attached"
                     THEN file' = [file EXCEPT
                                 !.mtime = now,
                                 !.by = Blob(w).by,
                                 !.auth = Blob(w).auth /\ (file.content = "partial"
                                                            \/ outcome = "covers"),
                                 !.content = IF file.content = "partial"
                                                \/ outcome = "covers"
                                               THEN "complete" ELSE "mixed"]
                     ELSE UNCHANGED file
                /\ pc' = [pc EXCEPT ![w] = "setup_close"]
                /\ UNCHANGED err
    /\ fd' = [fd EXCEPT ![w] = "none"]
    /\ UNCHANGED <<clockVars, fixedVars, dirExists, kind, acq, started, checkVars,
                   loginVars, ctxVars, ghostVars>>

\* SetupClose followed by one more attempt when the login threw.
SetupCloseRetry(w) ==
    /\ pc[w] = "setup_close"
    /\ setupCtx' = [setupCtx EXCEPT ![w] = "closed"]
    /\ IF err[w] # "none" /\ loginCalls[w] < 2
         THEN /\ pc' = [pc EXCEPT ![w] = "setup_ctx"]
              /\ err' = [err EXCEPT ![w] = "none"]
         ELSE /\ pc' = [pc EXCEPT ![w] = IF err[w] = "none" THEN "new_ctx" ELSE "failed"]
              /\ UNCHANGED err
    /\ UNCHANGED <<clockVars, fixedVars, fsVars, kind, acq, started, checkVars, loginVars, ctx,
                   ctxFrom, handed, testResult, fd, ghostVars>>

\* SetupClose after a catch that drops the error of setupAuthState.
SetupCloseSwallow(w) ==
    /\ pc[w] = "setup_close"
    /\ setupCtx' = [setupCtx EXCEPT ![w] = "closed"]
    /\ pc' = [pc EXCEPT ![w] = "new_ctx"]
    /\ UNCHANGED <<clockVars, fixedVars, fsVars, kind, acq, started, checkVars, loginVars, ctx,
                   ctxFrom, handed, testResult, err, fd, ghostVars>>

\* finally { await setupContext.close(); }  then the error, if any, goes on.
SetupClose(w) ==
    /\ pc[w] = "setup_close"
    /\ setupCtx' = [setupCtx EXCEPT ![w] = "closed"]
    /\ pc' = [pc EXCEPT ![w] = IF err[w] = "none" THEN "new_ctx" ELSE "failed"]
    /\ UNCHANGED <<clockVars, fixedVars, fsVars, kind, acq, started, checkVars, loginVars, ctx,
                   ctxFrom, handed, testResult, err, fd, ghostVars>>

\* NewCtx that renews the modification time of the file it has read.
NewCtxTouch(w) ==
    /\ pc[w] = "new_ctx"
    /\ \E ok \in BOOLEAN, k \in Fixtures :
         IF ok /\ file.exists /\ file.content = "complete"
           THEN /\ ctx' = [ctx EXCEPT ![w] = "open"]
                /\ ctxFrom' = [ctxFrom EXCEPT ![w] = file]
                /\ file' = [file EXCEPT !.mtime = now]
                /\ kind' = [kind EXCEPT ![w] = k]
                /\ pc' = [pc EXCEPT ![w] = IF k = "page" THEN "new_page" ELSE "use"]
                /\ UNCHANGED err
           ELSE /\ Throw(w, "newContext", "failed")
                /\ UNCHANGED <<ctx, ctxFrom, kind, file>>
    /\ UNCHANGED <<clockVars, fixedVars, dirExists, acq, started, checkVars, loginVars,
                   setupCtx, handed, testResult, fd, ghostVars>>

\* const context = await browser.newContext({ storageState: STORAGE_STATE_PATH });
\* the file is read and parsed; a missing, empty or garbled file throws.
NewCtx(w) ==
    /\ pc[w] = "new_ctx"
    /\ \E ok \in BOOLEAN, k \in Fixtures :
         IF ok /\ file.exists /\ file.content = "complete"
           THEN /\ ctx' = [ctx EXCEPT ![w] = "open"]
                /\ ctxFrom' = [ctxFrom EXCEPT ![w] = file]
                /\ kind' = [kind EXCEPT ![w] = k]
                /\ pc' = [pc EXCEPT ![w] = IF k = "page" THEN "new_page" ELSE "use"]
                /\ UNCHANGED err
           ELSE /\ Throw(w, "newContext", "failed")
                /\ UNCHANGED <<ctx, ctxFrom, kind>>
    /\ UNCHANGED <<clockVars, fixedVars, fsVars, acq, started, checkVars, loginVars, setupCtx,
                   handed, testResult, fd, ghostVars>>

\* const page = await context.newPage();   (page fixture only)
NewPage(w) ==
    /\ pc[w] = "new_page"
    /\ \E ok \in BOOLEAN :
         IF ok
           THEN /\ pc' = [pc EXCEPT ![w] = "use"]
                /\ UNCHANGED err
           ELSE Throw(w, "newPage", "failed")
    /\ UNCHANGED <<clockVars, fixedVars, fsVars, kind, acq, started, checkVars, loginVars, ctxVars,
                   fd, ghostVars>>

\* await use(page) / await use(context): the test body receives the fixture.
Use(w) ==
    /\ pc[w] = "use"
    /\ handed' = [handed EXCEPT ![w] = IF kind[w] = "page" THEN "page" ELSE "context"]
    /\ pc' = [pc EXCEPT ![w] = "in_test"]
    /\ UNCHANGED <<clockVars, fixedVars, fsVars, kind, acq, started, checkVars, loginVars, setupCtx,
                   ctx, ctxFrom, testResult, err, fd, ghostVars>>

\* The test body calls clearAuthStates():
\*   if (fs.existsSync(authDir)) { const files = fs.readdirSync(authDir); ...
\* The state file is the one entry the directory can hold.
ClearStatesReaddir(w) ==
    /\ pc[w] = "in_test"
    /\ pc' = [pc EXCEPT ![w] = IF dirExists /\ file.exists THEN "cas_stat"
                                                            ELSE "cas_done"]
    /\ UNCHANGED <<clockVars, fixedVars, fsVars, kind, acq, started, checkVars, loginVars,
                   ctxVars, err, fd, ghostVars>>

\* clearAuthStates: if (fs.statSync(filePath).isFile()) ...   statSync throws
\* when the file has been removed since the directory was read; nothing
\* catches the error, so the test body ends with it.
ClearStatesStat(w) ==
    /\ pc[w] = "cas_stat"
    /\ IF file.exists
         THEN /\ pc' = [pc EXCEPT ![w] = "cas_unlink"]
              /\ UNCHANGED testResult
         ELSE /\ pc' = [pc EXCEPT ![w] = "ctx_close"]
              /\ testResult' = [testResult EXCEPT ![w] = "failed"]
    /\ UNCHANGED <<clockVars, fixedVars, fsVars, kind, acq, started, checkVars, loginVars,
                   setupCtx, ctx, ctxFrom, handed, err, fd, ghostVars>>

\* clearAuthStates: fs.unlinkSync(filePath);   its error is not caught either.
ClearStatesUnlink(w) ==
    /\ pc[w] = "cas_unlink"
    /\ \E ok \in BOOLEAN :
         IF file.exists /\ ok
           THEN /\ file' = NoFile
                /\ fd' = Detach
                /\ pc' = [pc EXCEPT ![w] = "cas_done"]
                /\ UNCHANGED testResult
           ELSE /\ pc' = [pc EXCEPT ![w] = "ctx_close"]
                /\ testResult' = [testResult EXCEPT ![w] = "failed"]
                /\ UNCHANGED <<file, fd>>
    /\ UNCHANGED <<clockVars, fixedVars, dirExists, kind, acq, started, checkVars, loginVars,
                   setupCtx, ctx, ctxFrom, handed, err, ghostVars>>

\* The test body ends, passing or failing; use() resolves either way and the
\* fixture goes on to its teardown.
TestEnd(w) ==
    /\ pc[w] \in {"in_test", "cas_done"}
    /\ testResult' = [testResult EXCEPT ![w] = "ended"]
    /\ pc' = [pc EXCEPT ![w] = "ctx_close"]
    /\ UNCHANGED <<clockVars, fixedVars, fsVars, kind, acq, started, checkVars, loginVars, setupCtx,
                   ctx, ctxFrom, handed, err, fd, ghostVars>>

\* await context.close();
CtxClose(w) ==
    /\ pc[w] = "ctx_close"
    /\ ctx' = [ctx EXCEPT ![w] = "closed"]
    /\ pc' = [pc EXCEPT ![w] = "done"]
    /\ UNCHANGED <<clockVars, fixedVars, fsVars, kind, acq, started, checkVars, loginVars, setupCtx,
                   ctxFrom, handed, testResult, err, fd, ghostVars>>

WorkerStep(w) ==
    \/ Start(w)
    \/ ChkExists(w)
    \/ StaleExists(w)
    \/ StaleStat(w)
    \/ ClrExists(w)
    \/ ClrUnlink(w)
    \/ SetupCtx(w)
    \/ SetupPage(w)
    \/ LoginNav(w)
    \/ LoginUser(w)
    \/ LoginPass(w)
    \/ LoginClick(w)
    \/ LoginWait(w)
    \/ LoginMkdir(w)
    \/ SaveOpen(w)
    \/ SaveWrite(w)
    \/ SetupClose(w)
    \/ NewCtx(w)
    \/ NewPage(w)
    \/ Use(w)
    \/ ClearStatesReaddir(w)
    \/ ClearStatesStat(w)
    \/ ClearStatesUnlink(w)
    \/ TestEnd(w)
    \/ CtxClose(w)

Next ==
    \/ Tick
    \/ \E w \in Workers : WorkerStep(w)

Spec == Init /\ [][Next]_vars

\* ------------------------------------------------------------ the helpers
\* A behaviour of SpecHelpers is one call of one helper of utils/helpers.ts,
\* of the login page object or of the fixture module; every awaited call inside
\* the helper is one step, with the outcomes the awaited promise can have.
HelperNames == {"retryUntil", "fillWithRetry", "withTimeout", "waitForApiResponse",
                "loginWithCredentials", "isAuthenticated", "clearAuthStates"}

\* Largest maxRetries / retries argument explored.
MaxRetries == 3

\* ---- retryUntil(action, condition, maxRetries, retryDelay)
ruOthers == <<authVars, running, fw, wt, wr, lp, ia, cas>>

\* The call is entered: i = 0, nothing invoked yet.
RuStart ==
    { [pc |-> "loop", maxRetries |-> m, i |-> 0, actions |-> 0, checks |-> 0,
       trueChecks |-> 0, delays |-> 0, afterLast |-> 0, outcome |-> "pending"]
      : m \in 0..MaxRetries }

\* for (let i = 0; i < maxRetries; i++) ... and, after the loop,
\* throw new Error(`Condition not met after ${maxRetries} retries`);
RuLoop ==
    /\ running = "retryUntil" /\ ru.pc = "loop"
    /\ ru' = IF ru.i < ru.maxRetries
               THEN [ru EXCEPT !.pc = "action"]
               ELSE [ru EXCEPT !.pc = "done", !.outcome = "threwConditionNotMet"]
    /\ UNCHANGED ruOthers

\* await action();   a rejection leaves retryUntil as it is.
RuAction ==
    /\ running = "retryUntil" /\ ru.pc = "action"
    /\ \E ok \in BOOLEAN :
         ru' = IF ok
                 THEN [ru EXCEPT !.actions = @ + 1, !.pc = "condition"]
                 ELSE [ru EXCEPT !.actions = @ + 1, !.pc = "done",
                                 !.outcome = "threwAction"]
    /\ UNCHANGED ruOthers

\* RuCondition that also waits after the last attempt.
RuConditionAlwaysWaits ==
    /\ running = "retryUntil" /\ ru.pc = "condition"
    /\ \E r \in {"true", "false", "throws"} :
         ru' = CASE r = "true" ->
                      [ru EXCEPT !.checks = @ + 1, !.trueChecks = @ + 1,
                                 !.pc = "done", !.outcome = "returned"]
                 [] r = "throws" ->
                      [ru EXCEPT !.checks = @ + 1, !.pc = "done",
                                 !.outcome = "threwCondition"]
                 [] r = "false" ->
                      [ru EXCEPT !.checks = @ + 1, !.pc = "delay"]
    /\ UNCHANGED ruOthers

\* if (await condition()) return;  if (i < maxRetries - 1) go on to wait.
RuCondition ==
    /\ running = "retryUntil" /\ ru.pc = "condition"
    /\ \E r \in {"true", "false", "throws"} :
         ru' = CASE r = "true" ->
                      [ru EXCEPT !.checks = @ + 1, !.trueChecks = @ + 1,
                                 !.pc = "done", !.outcome = "returned"]
                 [] r = "throws" ->
                      [ru EXCEPT !.checks = @ + 1, !.pc = "done",
                                 !.outcome = "threwCondition"]
                 [] r = "false" /\ ru.i < ru.maxRetries - 1 ->
                      [ru EXCEPT !.checks = @ + 1, !.pc = "delay"]
                 [] r = "false" /\ ~(ru.i < ru.maxRetries - 1) ->
                      [ru EXCEPT !.checks = @ + 1, !.i = @ + 1, !.pc = "loop"]
    /\ UNCHANGED ruOthers

\* await new Promise(resolve => setTimeout(resolve, retryDelay));  then i++.
RuDelay ==
    /\ running = "retryUntil" /\ ru.pc = "delay"
    /\ ru' = [ru EXCEPT !.delays = @ + 1,
                        !.afterLast = IF ru.i = ru.maxRetries - 1 THEN @ + 1 ELSE @,
                        !.i = @ + 1, !.pc = "loop"]
    /\ UNCHANGED ruOthers

\* ---- fillWithRetry(page, selector, value, retries)
fwOthers == <<authVars, running, ru, wt, wr, lp, ia, cas>>

\* The call is entered; the input holds "old" and the caller asks for "new".
\* threwAt is the set of attempts (values of i) in which an exception was raised.
FwStart ==
    { [pc |-> "loop", retries |-> r, i |-> 0, fills |-> 0, value |-> "new",
       current |-> "old", threwAt |-> {}, waited |-> 0, mismatches |-> 0,
       outcome |-> "pending"]
      : r \in 0..MaxRetries }

\* for (let i = 0; i < retries; i++) ... and the end of the function after it.
FwLoop ==
    /\ running = "fillWithRetry" /\ fw.pc = "loop"
    /\ fw' = IF fw.i < fw.retries
               THEN [fw EXCEPT !.pc = "fill"]
               ELSE [fw EXCEPT !.pc = "done", !.outcome = "returned"]
    /\ UNCHANGED fwOthers

\* await page.fill(selector, value, { timeout: 5000 });   the page can keep the
\* text as typed or rewrite it (a mask, a formatter, a length limit).
FwFill ==
    /\ running = "fillWithRetry" /\ fw.pc = "fill"
    /\ \E r \in {"kept", "rewritten", "throws"} :
         fw' = CASE r = "kept" ->
                      [fw EXCEPT !.fills = @ + 1, !.current = fw.value, !.pc = "read"]
                 [] r = "rewritten" ->
                      [fw EXCEPT !.fills = @ + 1, !.current = "other", !.pc = "read"]
                 [] r = "throws" ->
                      [fw EXCEPT !.fills = @ + 1, !.threwAt = @ \cup {fw.i},
                                 !.pc = "catch"]
    /\ UNCHANGED fwOthers

\* const currentValue = await page.inputValue(selector);
\* if (currentValue === value) return;    otherwise the loop goes on at once.
FwRead ==
    /\ running = "fillWithRetry" /\ fw.pc = "read"
    /\ \E ok \in BOOLEAN :
         fw' = IF ~ok
                 THEN [fw EXCEPT !.threwAt = @ \cup {fw.i}, !.pc = "catch"]
                 ELSE IF fw.current = fw.value
                        THEN [fw EXCEPT !.pc = "done", !.outcome = "returned"]
                        ELSE [fw EXCEPT !.mismatches = @ + 1, !.i = @ + 1,
                                        !.pc = "loop"]
    /\ UNCHANGED fwOthers

\* FwCatch that swallows the exception of the last attempt too.
FwCatchSwallowsAll ==
    /\ running = "fillWithRetry" /\ fw.pc = "catch"
    /\ fw' = [fw EXCEPT !.pc = "wait"]
    /\ UNCHANGED fwOthers

\* catch (error) { if (i === retries - 1) throw error; ...
FwCatch ==
    /\ running = "fillWithRetry" /\ fw.pc = "catch"
    /\ fw' = IF fw.i = fw.retries - 1
               THEN [fw EXCEPT !.pc = "done", !.outcome = "threw"]
               ELSE [fw EXCEPT !.pc = "wait"]
    /\ UNCHANGED fwOthers

\* await page.waitForTimeout(1000);  then i++.   The timer is taken to run out.
FwWait ==
    /\ running = "fillWithRetry" /\ fw.pc = "wait"
    /\ fw' = [fw EXCEPT !.waited = @ + 1000, !.i = @ + 1, !.pc = "loop"]
    /\ UNCHANGED fwOthers

\* ---- withTimeout(action, timeout, errorMessage)
wtOthers == <<authVars, running, ru, fw, wr, lp, ia, cas>>

\* The call is entered.  `first` is the event that came first, once one came.
WtStart ==
    { [pc |-> "start", action |-> "notCalled", timer |-> "notSet",
       first |-> "none", outcome |-> "pending"] }

\* Promise.race([action(), new Promise((_, reject) => setTimeout(...))]):
\* action is called, the timer is set, and the race begins.
WtRace ==
    /\ running = "withTimeout" /\ wt.pc = "start"
    /\ wt' = [wt EXCEPT !.action = "pending", !.timer = "armed", !.pc = "racing"]
    /\ UNCHANGED wtOthers

\* The promise of action() is fulfilled or rejected; the race takes the
\* settlement only if it is not settled yet.
WtActionSettles ==
    /\ running = "withTimeout" /\ wt.pc = "racing" /\ wt.action = "pending"
    /\ \E r \in {"fulfilled", "rejected"} :
         wt' = [wt EXCEPT
                  !.action = r,
                  !.first = IF @ = "none" THEN "action" ELSE @,
                  !.outcome = IF @ = "pending"
                                THEN (IF r = "fulfilled" THEN "value" ELSE "actionError")
                                ELSE @]
    /\ UNCHANGED wtOthers

\* WtTimerFires whose rejection replaces an outcome already settled.
WtTimerOverrides ==
    /\ running = "withTimeout" /\ wt.pc = "racing" /\ wt.timer = "armed"
    /\ wt' = [wt EXCEPT !.timer = "fired",
                        !.first = IF @ = "none" THEN "timer" ELSE @,
                        !.outcome = "timeoutError"]
    /\ UNCHANGED wtOthers

\* setTimeout(() => reject(new Error(errorMessage)), timeout) fires; the timer
\* is never cleared, so it fires after the action has settled too.
WtTimerFires ==
    /\ running = "withTimeout" /\ wt.pc = "racing" /\ wt.timer = "armed"
    /\ wt' = [wt EXCEPT !.timer = "fired",
                        !.first = IF @ = "none" THEN "timer" ELSE @,
                        !.outcome = IF @ = "pending" THEN "timeoutError" ELSE @]
    /\ UNCHANGED wtOthers

\* ---- waitForApiResponse(page, urlPattern, action)
wrOthers == <<authVars, running, ru, fw, wt, lp, ia, cas>>

\* Matching responses that arrive during one call.
MaxResponses == 2

\* The call is entered.  Responses are numbered in their order of arrival;
\* matched is the number of the one the waiter took (0: none), firstAt the
\* position of the call when the first one arrived.
WrStart ==
    { [pc |-> "start", waiter |-> "none", actionCalls |-> 0, arrivals |-> 0,
       matched |-> 0, firstAt |-> "none", result |-> 0, outcome |-> "pending"] }

\* const responsePromise = page.waitForResponse(urlPattern);
WrRegister ==
    /\ running = "waitForApiResponse" /\ wr.pc = "start"
    /\ wr' = [wr EXCEPT !.waiter = "waiting", !.pc = "call"]
    /\ UNCHANGED wrOthers

\* await action();   the call itself, in the same turn as the registration.
WrCallAction ==
    /\ running = "waitForApiResponse" /\ wr.pc = "call"
    /\ wr' = [wr EXCEPT !.actionCalls = @ + 1, !.pc = "in_action"]
    /\ UNCHANGED wrOthers

\* await action();   its promise is fulfilled or rejected.
WrActionEnds ==
    /\ running = "waitForApiResponse" /\ wr.pc = "in_action"
    /\ \E ok \in BOOLEAN :
         wr' = IF ok THEN [wr EXCEPT !.pc = "await"]
                     ELSE [wr EXCEPT !.pc = "done", !.outcome = "threwAction"]
    /\ UNCHANGED wrOthers

\* WrResponse that a waiter hears only once action has finished.
WrResponseUnheardInAction ==
    /\ running = "waitForApiResponse" /\ wr.pc \in {"in_action", "await"}
    /\ wr.arrivals < MaxResponses
    /\ wr' = [wr EXCEPT
                !.arrivals = @ + 1,
                !.firstAt = IF @ = "none" THEN wr.pc ELSE @,
                !.waiter = IF @ = "waiting" /\ wr.pc = "await" THEN "matched" ELSE @,
                !.matched = IF wr.waiter = "waiting" /\ wr.pc = "await"
                              THEN wr.arrivals + 1 ELSE @]
    /\ UNCHANGED wrOthers

\* A response matching urlPattern arrives, while action runs or after it; a
\* waiter that is still waiting takes it.
WrResponse ==
    /\ running = "waitForApiResponse" /\ wr.pc \in {"in_action", "await"}
    /\ wr.arrivals < MaxResponses
    /\ wr' = [wr EXCEPT
                !.arrivals = @ + 1,
                !.firstAt = IF @ = "none" THEN wr.pc ELSE @,
                !.waiter = IF @ = "waiting" THEN "matched" ELSE @,
                !.matched = IF wr.waiter = "waiting" THEN wr.arrivals + 1 ELSE @]
    /\ UNCHANGED wrOthers

\* page.waitForResponse(urlPattern) is given no timeout option: the page's
\* default timeout runs from the registration, and when it runs out before a
\* matching response has arrived the promise is rejected.
WrTimeout ==
    /\ running = "waitForApiResponse" /\ wr.pc \in {"in_action", "await"}
    /\ wr.waiter = "waiting"
    /\ wr' = [wr EXCEPT !.waiter = "timedOut"]
    /\ UNCHANGED wrOthers

\* const response = await responsePromise;
WrAwait ==
    /\ running = "waitForApiResponse" /\ wr.pc = "await"
    /\ wr.waiter \in {"matched", "timedOut"}
    /\ wr' = IF wr.waiter = "matched"
               THEN [wr EXCEPT !.pc = "json"]
               ELSE [wr EXCEPT !.pc = "done", !.outcome = "threwTimeout"]
    /\ UNCHANGED wrOthers

\* return response.json();   the body is parsed, which fails on a body that
\* is not JSON.
WrJson ==
    /\ running = "waitForApiResponse" /\ wr.pc = "json"
    /\ \E ok \in BOOLEAN :
         wr' = IF ok THEN [wr EXCEPT !.pc = "done", !.outcome = "returned",
                                     !.result = wr.matched]
                     ELSE [wr EXCEPT !.pc = "done", !.outcome = "threwJson"]
    /\ UNCHANGED wrOthers

\* ---- LoginPage.loginWithCredentials()
lpOthers == <<authVars, running, ru, fw, wt, wr, ia, cas>>

\* The process configurations explored for the page object: those of the
\* fixtures, and two with only one of the credentials set.
LoginEnvConfigs ==
    EnvConfigs \cup { MkEnv("", "", "valid", ""), MkEnv("", "", "", "valid") }

\* The call is entered on a login page whose fields are empty.  submittedUser
\* and submittedPass are the field values at the click on the login button.
LpStart ==
    { [pc |-> "credentials", username |-> "-", password |-> "-",
       userField |-> "", passField |-> "", touched |-> FALSE,
       submittedUser |-> "-", submittedPass |-> "-", outcome |-> "pending"] }

\* const username = process.env.TEST_USER_ADMIN_USERNAME || '';  (and password)
\* if (!username || !password) throw new Error('Credentials not found ...');
LpCredentials ==
    /\ running = "loginWithCredentials" /\ lp.pc = "credentials"
    /\ LET username == EnvOrEmpty("TEST_USER_ADMIN_USERNAME")
           password == EnvOrEmpty("TEST_USER_ADMIN_PASSWORD")
       IN lp' = IF username = "" \/ password = ""
                  THEN [lp EXCEPT !.username = username, !.password = password,
                                  !.pc = "done", !.outcome = "threwCredentials"]
                  ELSE [lp EXCEPT !.username = username, !.password = password,
                                  !.pc = "fill_password"]
    /\ UNCHANGED lpOthers

\* await this.inputPassword.fill(password);
LpFillPassword ==
    /\ running = "loginWithCredentials" /\ lp.pc = "fill_password"
    /\ \E ok \in BOOLEAN :
         lp' = IF ok THEN [lp EXCEPT !.passField = lp.password, !.touched = TRUE,
                                     !.pc = "click_username"]
                     ELSE [lp EXCEPT !.touched = TRUE, !.pc = "done",
                                     !.outcome = "threwPage"]
    /\ UNCHANGED lpOthers

\* await this.inputLogin.click();   a click on the username field: it takes
\* the focus and its value stays as it is.
LpClickUsername ==
    /\ running = "loginWithCredentials" /\ lp.pc = "click_username"
    /\ \E ok \in BOOLEAN :
         lp' = IF ok THEN [lp EXCEPT !.pc = "click_login"]
                     ELSE [lp EXCEPT !.pc = "done", !.outcome = "threwPage"]
    /\ UNCHANGED lpOthers

\* await this.btnLogin.click();   the form is submitted with what its fields hold.
LpClickLogin ==
    /\ running = "loginWithCredentials" /\ lp.pc = "click_login"
    /\ \E ok \in BOOLEAN :
         lp' = IF ok THEN [lp EXCEPT !.submittedUser = lp.userField,
                                     !.submittedPass = lp.passField,
                                     !.pc = "click_swag"]
                     ELSE [lp EXCEPT !.pc = "done", !.outcome = "threwPage"]
    /\ UNCHANGED lpOthers

\* await this.swagLabs.click();
LpClickSwagLabs ==
    /\ running = "loginWithCredentials" /\ lp.pc = "click_swag"
    /\ \E ok \in BOOLEAN :
         lp' = IF ok THEN [lp EXCEPT !.pc = "wait"]
                     ELSE [lp EXCEPT !.pc = "done", !.outcome = "threwPage"]
    /\ UNCHANGED lpOthers

\* await this.page.waitForLoadState('networkidle');
LpWait ==
    /\ running = "loginWithCredentials" /\ lp.pc = "wait"
    /\ \E ok \in BOOLEAN :
         lp' = IF ok THEN [lp EXCEPT !.pc = "done", !.outcome = "returned"]
                     ELSE [lp EXCEPT !.pc = "done", !.outcome = "threwPage"]
    /\ UNCHANGED lpOthers

\* ---- isAuthenticated(page)
iaOthers == <<authVars, running, ru, fw, wt, wr, lp, cas>>

\* URLs are sequences of pieces, "/" being a piece of its own.
\* LoginPage.url = 'https://www.saucedemo.com/'
LoginPageUrl == <<"https:", "/", "/", "www.saucedemo.com", "/">>

\* The page the application shows after a login.
InventoryUrl == LoginPageUrl \o <<"inventory.html">>

\* A URL that has the login URL after a slash.
ArchivedUrl == <<"https:", "/", "/", "web.archive.org", "/", "web", "/">> \o LoginPageUrl

\* The literal '/https://www.saucedemo.com/' that isAuthenticated looks for.
LoginUrlNeedle == <<"/">> \o LoginPageUrl

\* String.prototype.includes
Includes(hay, needle) ==
    \E k \in 0..(Len(hay) - Len(needle)) : SubSeq(hay, k + 1, k + Len(needle)) = needle

\* The call is entered on a page that shows one of the URLs.
IaStart ==
    { [pc |-> "call", url |-> u, urlThrew |-> FALSE, result |-> FALSE,
       outcome |-> "pending"]
      : u \in {LoginPageUrl, InventoryUrl, ArchivedUrl} }

\* try { const currentUrl = page.url();
\*       return !currentUrl.includes('/https://www.saucedemo.com/'); }
\* catch (error) { return false; }
IaCheck ==
    /\ running = "isAuthenticated" /\ ia.pc = "call"
    /\ \E ok \in BOOLEAN :
         ia' = IF ok THEN [ia EXCEPT !.result = ~Includes(ia.url, LoginUrlNeedle),
                                     !.pc = "done", !.outcome = "returned"]
                     ELSE [ia EXCEPT !.urlThrew = TRUE, !.result = FALSE,
                                     !.pc = "done", !.outcome = "returned"]
    /\ UNCHANGED iaOthers

\* ---- clearAuthStates(), on a directory with several entries
casOthers == <<authVars, running, ru, fw, wt, wr, lp, ia>>

\* What the .auth directory can hold: the state file, another regular file,
\* and a subdirectory.
AuthDirNames == {"user.json", "notes.txt", "screenshots"}

\* fs.statSync(filePath).isFile()
IsFile(name) == name # "screenshots"

\* fs.readdirSync(authDir), as a sequence.
Readdir(entries) ==
    SelectSeq(<<"notes.txt", "screenshots", "user.json">>, LAMBDA n : n \in entries)

\* The state file as the fixtures see it in a directory with these entries.
StateFileIn(entries) == IF "user.json" \in entries THEN EarlierFile ELSE NoFile

\* The call is entered on a directory that exists or not, with these entries.
CasEntered(d, e) ==
    [pc |-> "exists", dirExists |-> d, initial |-> e, entries |-> e,
     files |-> <<>>, idx |-> 1, unlinks |-> 0, outcome |-> "pending"]

\* The directory is missing, or holds some of the entries.
CasStart ==
    {CasEntered(FALSE, {})} \cup {CasEntered(TRUE, e) : e \in SUBSET AuthDirNames}

\* if (fs.existsSync(authDir)) { ... }
CasExists ==
    /\ running = "clearAuthStates" /\ cas.pc = "exists"
    /\ cas' = IF cas.dirExists THEN [cas EXCEPT !.pc = "readdir"]
                               ELSE [cas EXCEPT !.pc = "done", !.outcome = "returned"]
    /\ UNCHANGED casOthers

\* const files = fs.readdirSync(authDir);
CasReaddir ==
    /\ running = "clearAuthStates" /\ cas.pc = "readdir"
    /\ \E ok \in BOOLEAN :
         cas' = IF ok THEN [cas EXCEPT !.files = Readdir(cas.entries), !.idx = 1,
                                       !.pc = "each"]
                      ELSE [cas EXCEPT !.pc = "done", !.outcome = "threw"]
    /\ UNCHANGED casOthers

\* files.forEach(file => { ... }): the next entry, or the end of the function.
CasForEach ==
    /\ running = "clearAuthStates" /\ cas.pc = "each"
    /\ cas' = IF cas.idx <= Len(cas.files)
                THEN [cas EXCEPT !.pc = "stat"]
                ELSE [cas EXCEPT !.pc = "done", !.outcome = "returned"]
    /\ UNCHANGED casOthers

\* if (fs.statSync(filePath).isFile()) ...   an error of statSync is not caught.
CasStat ==
    /\ running = "clearAuthStates" /\ cas.pc = "stat"
    /\ \E ok \in BOOLEAN :
         cas' = IF ~ok THEN [cas EXCEPT !.pc = "done", !.outcome = "threw"]
                ELSE IF IsFile(cas.files[cas.idx])
                       THEN [cas EXCEPT !.pc = "unlink"]
                       ELSE [cas EXCEPT !.idx = @ + 1, !.pc = "each"]
    /\ UNCHANGED casOthers

\* CasUnlink that reports success without removing the entry.
CasUnlinkKeeps ==
    /\ running = "clearAuthStates" /\ cas.pc = "unlink"
    /\ \E ok \in BOOLEAN :
         cas' = IF ok THEN [cas EXCEPT !.unlinks = @ + 1, !.idx = @ + 1, !.pc = "each"]
                      ELSE [cas EXCEPT !.pc = "done", !.outcome = "threw"]
    /\ UNCHANGED casOthers

\* fs.unlinkSync(filePath);   an error of unlinkSync is not caught.
CasUnlink ==
    /\ running = "clearAuthStates" /\ cas.pc = "unlink"
    /\ \E ok \in BOOLEAN :
         cas' = IF ok THEN [cas EXCEPT !.entries = @ \ {cas.files[cas.idx]},
                                       !.unlinks = @ + 1, !.idx = @ + 1, !.pc = "each"]
                      ELSE [cas EXCEPT !.pc = "done", !.outcome = "threw"]
    /\ UNCHANGED casOthers

\* ---- the helpers' specification
InitHelpers ==
    /\ running \in HelperNames
    /\ env \in (IF running = "loginWithCredentials" THEN LoginEnvConfigs
                                                    ELSE {MkEnv("", "", "valid", "valid")})
    /\ AuthInit
    /\ file = NoFile
    /\ ru \in (IF running = "retryUntil" THEN RuStart ELSE {NotCalled})
    /\ fw \in (IF running = "fillWithRetry" THEN FwStart ELSE {NotCalled})
    /\ wt \in (IF running = "withTimeout" THEN WtStart ELSE {NotCalled})
    /\ wr \in (IF running = "waitForApiResponse" THEN WrStart ELSE {NotCalled})
    /\ lp \in (IF running = "loginWithCredentials" THEN LpStart ELSE {NotCalled})
    /\ ia \in (IF running = "isAuthenticated" THEN IaStart ELSE {NotCalled})
    /\ cas \in (IF running = "clearAuthStates" THEN CasStart ELSE {NotCalled})

NextHelpers ==
    \/ RuLoop
    \/ RuAction
    \/ RuCondition
    \/ RuDelay
    \/ FwLoop
    \/ FwFill
    \/ FwRead
    \/ FwCatch
    \/ FwWait
    \/ WtRace
    \/ WtActionSettles
    \/ WtTimerFires
    \/ WrRegister
    \/ WrCallAction
    \/ WrActionEnds
    \/ WrResponse
    \/ WrTimeout
    \/ WrAwait
    \/ WrJson
    \/ LpCredentials
    \/ LpFillPassword
    \/ LpClickUsername
    \/ LpClickLogin
    \/ LpClickSwagLabs
    \/ LpWait
    \/ IaCheck
    \/ CasExists
    \/ CasReaddir
    \/ CasForEach
    \/ CasStat
    \/ CasUnlink

SpecHelpers == InitHelpers /\ [][NextHelpers]_vars

\* ------------------------------------------------------------ one worker
\* The suite run by a single worker (workers: 1, as on CI): its acquisitions
\* follow one another, and nothing else touches the state path.
SingleWorker == "w1"

InitSeq == Init

NextSeq ==
    \/ Tick
    \/ WorkerStep(SingleWorker)

SpecSeq == InitSeq /\ [][NextSeq]_vars

\* ------------------------------------------------------------ claims
\* An acquisition starts when its fixture evaluates the freshness check, its
\* first statement; the state it starts with is what the path holds at the
\* moment that check ends (startState).

\* The fixture has returned or thrown.
Terminal == {"done", "failed"}

\* Worker w takes the step that ends its acquisition.
Ends(w) == pc[w] \notin Terminal /\ pc'[w] \in Terminal

\* Worker w's storageState({ path }) returns without an error.
SaveReturns(w) == pc[w] = "login_write" /\ pc'[w] = "setup_close" /\ err'[w] = "none"

\* The steps of setupAuthState that come before storageState({ path }).
PrePersistSteps == {"navigate", "fillUser", "fillPass", "click", "wait", "mkdir"}

\* C1, as stated: every acquisition that starts with the state absent or stale
\* calls setupAuthState exactly once, and when setupAuthState returns without
\* an error isAuthStateStale() evaluated right then is false.
C1_ExactlyOnceThenFresh ==
    [][\A w \in Workers :
        /\ (Ends(w) /\ startState'[w] \in {"absent", "old"}) => loginCalls'[w] = 1
        /\ SaveReturns(w) => ~isAuthStateStale(file', now')]_vars

\* C1, amended: such an acquisition calls setupAuthState at most once, never
\* again after a failure; exactly once unless browser.newContext() or
\* setupContext.newPage() threw before the call; and when setupAuthState
\* returns without an error and no other worker removed the file while it was
\* being written, isAuthStateStale() evaluated right then is false.
C1_AtMostOnceThenFresh ==
    [][\A w \in Workers :
        /\ loginCalls'[w] <= 1
        /\ (Ends(w) /\ startState'[w] \in {"absent", "old"})
              => loginCalls'[w] = IF err'[w] \in {"setupCtx", "setupPage"} THEN 0 ELSE 1
        /\ (SaveReturns(w) /\ fd[w] = "attached")
              => ~isAuthStateStale(file', now')]_vars

\* C1 witness: an acquisition that found an old file has logged in once, has
\* persisted the state, and the state is not stale.
C1_Witness ==
    \E w \in Workers :
        /\ pc[w] = "setup_close" /\ err[w] = "none" /\ startState[w] = "old"
        /\ loginCalls[w] = 1 /\ ~isAuthStateStale(file, now)

\* C2: an acquisition that starts with the file present and within the
\* freshness window never calls setupAuthState and opens no setup context.
C2_FreshNoLogin ==
    \A w \in Workers :
        startState[w] = "fresh"
          => loginCalls[w] = 0 /\ setupCtx[w] = "none" /\ ~navigated[w]

\* C2 witness: an acquisition on a fresh file has run to its end.
C2_Witness ==
    \E w \in Workers : startState[w] = "fresh" /\ pc[w] = "done" /\ loginCalls[w] = 0

\* The positions of a worker inside the test body.
TestBody == {"in_test", "cas_stat", "cas_unlink", "cas_done"}

\* C3: no step the fixture takes in an acquisition on a fresh file changes the file, and when
\* the file still holds the write the worker's previous acquisition opened its
\* context from, the new context is opened from the identical blob.
C3_FreshUntouched ==
    [][\A w \in Workers :
        (startState'[w] = "fresh" /\ pc'[w] # pc[w] /\ pc[w] \notin TestBody)
          => /\ file' = file
             /\ (pc[w] = "new_ctx" /\ ctx'[w] = "open"
                   /\ lastFrom[w].exists /\ lastFrom[w].by = file.by)
                  => ctxFrom'[w] = lastFrom[w]]_vars

\* C3 witness: a worker's second acquisition, on a fresh file, has opened its
\* context from the blob its first acquisition used.
C3_Witness ==
    \E w \in Workers :
        /\ startState[w] = "fresh" /\ ctx[w] = "open"
        /\ lastFrom[w].exists /\ ctxFrom[w] = lastFrom[w]

\* C4: for a file last modified at t0, isAuthStateStale() is false at every
\* t <= t0 + AUTH_STATE_MAX_AGE_MS, the boundary included, and true later; the
\* fixture's check decides accordingly.
C4_Window ==
    /\ file.exists
         => (isAuthStateStale(file, now) <=> now > file.mtime + AUTH_STATE_MAX_AGE_MS)
    /\ \A w \in Workers :
         /\ startState[w] = "fresh" <=> staleWhy[w] = "fresh"
         /\ startState[w] = "old" <=> staleWhy[w] = "age"

\* C4 witness: a check found the file fresh, and the file is exactly
\* AUTH_STATE_MAX_AGE_MS old and not stale.
C4_Witness ==
    /\ file.exists /\ now = file.mtime + AUTH_STATE_MAX_AGE_MS
    /\ ~isAuthStateStale(file, now)
    /\ \E w \in Workers : staleWhy[w] = "fresh" /\ pc[w] = "new_ctx"

\* C5: with no file at the path isAuthStateStale() is true at any time, and a
\* check that ends with no file at the path decides "stale".
C5_AbsentIsStale ==
    /\ ~file.exists => isAuthStateStale(file, now)
    /\ \A w \in Workers :
         startState[w] = "absent" => staleWhy[w] \in {"absent", "absent288", "statThrew"}

\* C5 witness: isAuthStateStale() itself found no file and returned true.
C5_Witness == \E w \in Workers : staleWhy[w] = "absent288" /\ startState[w] = "absent"

\* C6: no step of isAuthStateStale() throws; when the file is gone at the
\* existence check or at the stat call the result is true and the caller goes
\* on to regenerate.
C6_NeverThrows ==
    [][\A w \in Workers :
        (pc[w] \in {"stale_exists", "stale_stat"} /\ pc'[w] # pc[w])
          => /\ err'[w] = "none"
             /\ pc'[w] # "failed"
             /\ ~file.exists
                  => /\ staleWhy'[w] \in {"absent288", "statThrew"}
                     /\ pc'[w] = "clr_exists"]_vars

\* C6 witness: statSync threw because another worker removed the file after
\* the existence check, and the fixture goes on to regenerate.
C6_Witness ==
    \E w \in Workers : staleWhy[w] = "statThrew" /\ pc[w] = "clr_exists" /\ err[w] = "none"

\* C7, as stated: with the username or the password unset or empty, no
\* acquisition navigates to the login page, fills in a blank credential or
\* submits the form.
C7_FailFast ==
    \A w \in Workers :
        (EnvOrEmpty("TEST_USER_ADMIN_USERNAME") = ""
           \/ EnvOrEmpty("TEST_USER_ADMIN_PASSWORD") = "")
          => /\ ~navigated[w]
             /\ filledUser[w] # "" /\ filledPass[w] # ""
             /\ ~submitted[w]

\* C8, as stated: when setupAuthState throws before persisting, no file exists
\* at the path once the acquisition has ended, the fixture has thrown, and no
\* context or page was created for the test.
C8_NoFileAfterFailedLogin ==
    \A w \in Workers :
        (pc[w] = "failed" /\ err[w] \in PrePersistSteps)
          => ~file.exists /\ ctx[w] = "none" /\ handed[w] = "none"

\* C8, amended: when setupAuthState throws before persisting, the acquisition
\* has written nothing to the path: a file there once it has ended is the old
\* file whose deletion failed, or the work of another worker; the fixture has
\* thrown, and no context or page was created for the test.
C8_NothingWrittenAfterFailedLogin ==
    \A w \in Workers :
        (pc[w] = "failed" /\ err[w] \in PrePersistSteps)
          => /\ file.exists
                  => \/ unlinkFailed[w]
                     \/ file.content = "partial"
                     \/ file.by[1] \in Workers \ {w}
             /\ setupCtx[w] = "closed"
             /\ ctx[w] = "none" /\ handed[w] = "none"

\* C8 witness: the click on the login button threw in an acquisition that had
\* found and removed an old file; the fixture has thrown and the path is empty.
C8_Witness ==
    \E w \in Workers :
        /\ pc[w] = "failed" /\ err[w] = "click" /\ startState[w] = "old"
        /\ ~unlinkFailed[w] /\ ~file.exists

\* C9, as stated: what a test is handed was opened from the state of an
\* authenticated session, and a complete state file holds such a state.
C9_OnlyAuthenticated ==
    /\ \A w \in Workers : handed[w] # "none" => ctxFrom[w].auth
    /\ (file.exists /\ file.content = "complete") => file.auth

\* C10, as stated: once a fixture has returned or thrown, the context it
\* opened from the persisted state is not left open.
C10_ContextClosed ==
    \A w \in Workers : pc[w] \in Terminal => ctx[w] # "open"

\* C11, as stated: once a fixture has returned or thrown, the setup context it
\* opened for the regeneration is not left open.
C11_SetupContextClosed ==
    \A w \in Workers : pc[w] \in Terminal => setupCtx[w] # "open"

\* Worker w's check found the file fresh, and w is about to open its context.
OpensAfterFreshCheck(w) ==
    pc[w] = "new_ctx" /\ staleWhy[w] = "fresh" /\ pc'[w] # pc[w]

\* C12, as stated: a worker that passed the freshness check and, when it opens
\* its context, finds the file deleted or partially rewritten by the other
\* worker does not fail: it goes back to regenerate the state.
C12_BenignRace ==
    [][\A w \in Workers :
        (OpensAfterFreshCheck(w) /\ (~file.exists \/ file.content # "complete"))
          => pc'[w] # "failed" /\ err'[w] = "none"]_vars

\* Worker u has logged in successfully and its storageState({ path }) returned.
Persisted(u) ==
    /\ pc[u] \in {"setup_close", "new_ctx", "new_page", "use", "ctx_close", "done"}
                \cup TestBody
    /\ loginCalls[u] = 1 /\ session[u] /\ err[u] = "none"

\* C13, as stated: when two workers both regenerate with successful logins,
\* then at the moment the second of them has written, the file exists, is
\* fresh, and holds one worker's complete authenticated blob - the blob of
\* that second writer when the path still names the file it opened.
C13_LastWriterWins ==
    [][\A w \in Workers : \A u \in Workers \ {w} :
        (SaveReturns(w) /\ session[w] /\ Persisted(u))
          => /\ file'.exists /\ ~isAuthStateStale(file', now')
             /\ file'.content = "complete" /\ file'.auth
             /\ fd[w] = "attached" => file'.by = Blob(w).by]_vars

\* C14, as stated: a check that finds at the path a file that is not a complete
\* blob, with no write to it in progress, decides "stale" even when the file's
\* modification time lies inside the freshness window.
C14_CorruptIsStale ==
    [][\A w \in Workers :
        (/\ pc[w] = "stale_stat" /\ pc'[w] # pc[w]
         /\ file.exists /\ file.content # "complete"
         /\ \A u \in Workers : fd[u] = "none")
          => staleWhy'[w] # "fresh" /\ pc'[w] = "clr_exists"]_vars

\* Worker w takes a step of storageState({ path }).
SaveStep(w) == pc[w] \in {"login_save", "login_write"} /\ pc'[w] # pc[w]

\* Worker w takes the unlinkSync step of clearAuthState or of clearAuthStates.
UnlinkStep(w) == pc[w] \in {"clr_unlink", "cas_unlink"} /\ pc'[w] # pc[w]

\* The transitions of the path that C15 states and its amendment keeps: the
\* file is created or rewritten, and so becomes FRESH, only by storageState()
\* at the end of a login; FRESH becomes STALE only when time passes; the file
\* disappears only by an unlinkSync.
PathTransitions ==
    /\ (file' # file /\ file'.exists)
         => \E w \in Workers : SaveStep(w) /\ loginCalls[w] = 1
    /\ (PathState # "fresh" /\ PathState' = "fresh") => \E w \in Workers : SaveStep(w)
    /\ (PathState = "fresh" /\ PathState' = "old") => now' > now /\ file' = file
    /\ (file.exists /\ ~file'.exists) => \E w \in Workers : UnlinkStep(w)

\* C15, as stated: the path moves only along the stated machine, no context is
\* opened from a file that is stale at that moment, and every clearAuthState()
\* and clearAuthStates() leaves no file at the path.
C15_StatedMachine ==
    [][/\ PathTransitions
       /\ \A w \in Workers :
            /\ (pc[w] = "new_ctx" /\ ctx'[w] = "open") => ~isAuthStateStale(file, now)
            /\ (pc[w] = "clr_unlink" /\ pc'[w] # pc[w]) => ~file'.exists
            /\ (pc[w] \in TestBody /\ pc'[w] \in {"cas_done", "ctx_close"}
                  /\ pc[w] \notin {"in_test", "cas_done"}) => ~file'.exists]_vars

\* C15, amended: the path moves only along the stated machine; an acquisition
\* whose check found the state stale or absent opens its context only from a
\* file persisted after that check, never from the one it found; clearAuthState
\* leaves no file unless unlinkSync failed, and then leaves the file as it
\* was; clearAuthStates leaves no file when it returns normally and leaves the
\* file as it was when it throws.
C15_Machine ==
    [][/\ PathTransitions
       /\ \A w \in Workers :
            /\ (pc[w] = "new_ctx" /\ ctx'[w] = "open" /\ staleWhy[w] # "fresh")
                 => ctxFrom'[w].by # seenBy[w] /\ loginCalls[w] = 1
            /\ (pc[w] = "clr_unlink" /\ pc'[w] # pc[w])
                 => ~file'.exists \/ (unlinkFailed'[w] /\ file' = file)
            /\ (pc[w] \in TestBody /\ pc'[w] = "cas_done" /\ pc[w] # "cas_done")
                 => ~file'.exists
            /\ (pc[w] \in {"cas_stat", "cas_unlink"} /\ pc'[w] = "ctx_close")
                 => file' = file /\ testResult'[w] = "failed"]_vars

\* C15 witness: a check found the earlier run's file too old, the worker
\* logged in and persisted, and its context is open from its own fresh blob.
C15_Witness ==
    \E w \in Workers :
        /\ ctx[w] = "open" /\ staleWhy[w] = "age" /\ seenBy[w] = EarlierFile.by
        /\ ctxFrom[w].by = <<w, acq[w]>> /\ PathState = "fresh"

\* C16, as stated: no step of clearAuthState() raises an error, and when the
\* call returns no file exists at the path.
C16_ClearLeavesNoFile ==
    [][\A w \in Workers :
        (pc[w] \in {"clr_exists", "clr_unlink"} /\ pc'[w] # pc[w])
          => /\ err'[w] = "none" /\ pc'[w] # "failed"
             /\ pc'[w] = "setup_ctx" => ~file'.exists]_vars

\* C16, amended: no step of clearAuthState() raises an error, however often it
\* is called; called with no file at the path it changes nothing; and when the
\* call returns no file exists at the path unless unlinkSync failed, in which
\* case the file is as it was.
C16_ClearIdempotent ==
    [][\A w \in Workers :
        (pc[w] \in {"clr_exists", "clr_unlink"} /\ pc'[w] # pc[w])
          => /\ err'[w] = "none" /\ pc'[w] # "failed"
             /\ ~file.exists => pc'[w] = "setup_ctx" /\ file' = file
             /\ pc'[w] = "setup_ctx"
                  => ~file'.exists \/ (unlinkFailed'[w] /\ file' = file)]_vars

\* C16 witness: both workers found the old file and called clearAuthState();
\* the first call removed it, the second found nothing to remove, neither
\* raised an error and no file exists.
C16_Witness ==
    /\ ~file.exists
    /\ \A w \in Workers :
         /\ pc[w] = "setup_ctx" /\ startState[w] = "old"
         /\ ~unlinkFailed[w] /\ err[w] = "none"

\* C17: when unlinkSync fails, clearAuthState() raises nothing and the
\* acquisition goes on to open the setup context and log in, exactly as after
\* a deletion that succeeded.
C17_ClearNeverThrows ==
    [][\A w \in Workers :
        /\ (pc[w] = "clr_unlink" /\ pc'[w] # pc[w])
             => err'[w] = "none" /\ pc'[w] = "setup_ctx"
        /\ err'[w] # "unlink"
        /\ (unlinkFailed[w] /\ pc[w] = "setup_page" /\ pc'[w] = "login_nav")
             => loginCalls[w] = 0 /\ err[w] = "none"]_vars

\* C17 witness: unlinkSync failed on the old file, which is still at the path,
\* and the acquisition is in the middle of the login procedure.
C17_Witness ==
    \E w \in Workers :
        /\ unlinkFailed[w] /\ file.exists /\ file.by = seenBy[w]
        /\ pc[w] = "login_user" /\ navigated[w] /\ err[w] = "none"

\* C18: when mkdirSync or storageState({ path }) throws, the acquisition
\* fails with that error: it goes through the closing of the setup context to
\* its end, opens no context from the path and hands nothing to the test.
C18_PersistFailureFatal ==
    \A w \in Workers :
        err[w] \in {"mkdir", "save"}
          => /\ pc[w] \in {"setup_close", "failed"}
             /\ pc[w] = "failed" => setupCtx[w] = "closed"
             /\ ctx[w] = "none" /\ handed[w] = "none"

\* C18 witness: after successful logins one acquisition has failed at
\* mkdirSync and another at storageState, each with its setup context closed.
C18_Witness ==
    \E w \in Workers : \E u \in Workers \ {w} :
        /\ pc[w] = "failed" /\ err[w] = "mkdir" /\ session[w] /\ setupCtx[w] = "closed"
        /\ pc[u] = "failed" /\ err[u] = "save" /\ session[u] /\ setupCtx[u] = "closed"

\* C19, as stated: in every reachable state the path holds no file or a file
\* whose content is the complete blob of a single capture.
C19_SingleCompleteBlob == file.exists => file.content = "complete"

\* C20, as stated: when exactly ADMIN_USERNAME and ADMIN_PASSWORD are set, the
\* values setupAuthState fills into the login form are those two values.
C20_ReadmeCredentials ==
    (/\ env["ADMIN_USERNAME"] # "" /\ env["ADMIN_PASSWORD"] # ""
     /\ env["TEST_USER_ADMIN_USERNAME"] = "" /\ env["TEST_USER_ADMIN_PASSWORD"] = "")
      => \A w \in Workers :
           /\ filledUser[w] \in {"-", env["ADMIN_USERNAME"]}
           /\ filledPass[w] \in {"-", env["ADMIN_PASSWORD"]}

\* The steps of a regeneration in the order of the code: from each position,
\* the positions the next step leads to (the second one when the step throws).
RegenNext ==
    [clr_exists |-> {"clr_unlink", "setup_ctx"},
     clr_unlink |-> {"setup_ctx"},
     setup_ctx |-> {"setup_page", "failed"},
     setup_page |-> {"login_nav", "failed"},
     login_nav |-> {"login_user", "setup_close"},
     login_user |-> {"login_pass", "setup_close"},
     login_pass |-> {"login_click", "setup_close"},
     login_click |-> {"login_wait", "setup_close"},
     login_wait |-> {"login_mkdir", "setup_close"},
     login_mkdir |-> {"login_save", "setup_close"},
     login_save |-> {"login_write", "setup_close"},
     login_write |-> {"setup_close"},
     setup_close |-> {"new_ctx", "failed"}]

\* What each step of a regeneration has left behind shows the steps before it.
RegenEvidence(w) ==
    /\ setupCtx[w] # "none" => staleWhy[w] \notin {"none", "fresh"}
    /\ navigated[w] => setupCtx[w] # "none"
    /\ filledUser[w] # "-" => navigated[w]
    /\ filledPass[w] # "-" => filledUser[w] # "-"
    /\ submitted[w] => filledPass[w] # "-"
    /\ pc[w] \in {"login_mkdir", "login_save", "login_write"} => submitted[w]
    /\ (fd[w] # "none" \/ (file.exists /\ file.by = <<w, acq[w]>>))
         => submitted[w] /\ dirExists /\ setupCtx[w] # "none"
    /\ fd[w] # "none" => setupCtx[w] = "open"
    /\ setupCtx[w] = "closed" => loginCalls[w] = 1
    /\ (ctx[w] # "none" /\ staleWhy[w] # "fresh")
         => /\ setupCtx[w] = "closed" /\ err[w] \in {"none", "newPage"}
            /\ submitted[w] /\ fd[w] = "none"

\* C21: a regeneration takes its steps in the order delete, setup context,
\* navigate, fill, submit, wait, mkdir, persist, close, and the context for the
\* test is opened only after the state was persisted and the setup context closed.
C21_RegenOrder ==
    [][\A w \in Workers :
        /\ (pc[w] \in DOMAIN RegenNext /\ pc'[w] # pc[w]) => pc'[w] \in RegenNext[pc[w]]
        /\ (pc'[w] \in DOMAIN RegenNext /\ pc'[w] # pc[w] /\ pc'[w] # "clr_exists")
             => pc[w] \in DOMAIN RegenNext
        /\ (pc'[w] = "clr_exists" /\ pc'[w] # pc[w])
             => pc[w] \in {"chk_exists", "stale_exists", "stale_stat"}
        /\ RegenEvidence(w)']_vars

\* C21 witness: a regeneration that removed an old file has run through to a
\* test that holds a context opened from the state it persisted.
C21_Witness ==
    \E w \in Workers :
        /\ pc[w] = "in_test" /\ handed[w] # "none" /\ startState[w] = "old"
        /\ ~unlinkFailed[w] /\ setupCtx[w] = "closed" /\ ctxFrom[w].by = <<w, acq[w]>>

\* C22: a call of retryUntil with maxRetries >= 1 invokes action at most
\* maxRetries times and checks condition after each invocation that returned;
\* it returns exactly after the first true check, without another invocation;
\* it throws 'Condition not met' exactly when maxRetries checks were all false;
\* and it waits once between two attempts and never after the last one.
C22_RetryUntil ==
    (running = "retryUntil" /\ ru.maxRetries >= 1)
      => /\ ru.actions <= ru.maxRetries
         /\ ru.checks = IF ru.pc = "condition" \/ ru.outcome = "threwAction"
                          THEN ru.actions - 1 ELSE ru.actions
         /\ ru.trueChecks = IF ru.outcome = "returned" THEN 1 ELSE 0
         /\ ru.outcome = "returned" => ru.pc = "done"
         /\ ru.outcome = "threwConditionNotMet"
              <=> (ru.pc = "done" /\ ru.checks = ru.maxRetries /\ ru.trueChecks = 0
                     /\ ru.outcome \notin {"threwAction", "threwCondition"})
         /\ ru.afterLast = 0
         /\ ru.pc = "action" => ru.actions = ru.i /\ ru.delays = ru.i
         /\ ru.outcome = "threwConditionNotMet" => ru.delays = ru.maxRetries - 1
         /\ ru.outcome = "returned" => ru.delays = ru.actions - 1

\* C22 witness: three attempts, three false checks, two waits, and the throw.
C22_Witness ==
    /\ running = "retryUntil" /\ ru.maxRetries = 3
    /\ ru.outcome = "threwConditionNotMet" /\ ru.actions = 3 /\ ru.checks = 3
    /\ ru.delays = 2

\* C23: a call of fillWithRetry calls page.fill at most `retries` times; an
\* exception raised in an attempt other than the last is swallowed and
\* followed by a wait of 1000 ms and another attempt; an exception raised in
\* the last attempt is rethrown.
C23_FillWithRetry ==
    running = "fillWithRetry"
      => /\ fw.fills <= fw.retries
         /\ fw.outcome = "threw" <=> (fw.pc = "done" /\ (fw.retries - 1) \in fw.threwAt)
         /\ fw.pc = "wait" => fw.i < fw.retries - 1
         /\ fw.pc \notin {"catch", "wait"}
              => fw.waited = 1000 * Cardinality(fw.threwAt \ {fw.retries - 1})
         /\ (fw.pc = "fill" /\ fw.i > 0 /\ (fw.i - 1) \in fw.threwAt)
              => fw.waited >= 1000

\* C23 witness: the first two attempts raised and were each followed by a wait
\* of 1000 ms, the third raised and was rethrown.
C23_Witness ==
    /\ running = "fillWithRetry" /\ fw.retries = 3 /\ fw.threwAt = {0, 1, 2}
    /\ fw.waited = 2000 /\ fw.outcome = "threw" /\ fw.fills = 3

\* C29, as stated: when a call of fillWithRetry that made at least one attempt
\* returns without throwing, the input's value equals the requested value.
C29_ReturnsOnlyWhenFilled ==
    (running = "fillWithRetry" /\ fw.outcome = "returned" /\ fw.fills >= 1)
      => fw.current = fw.value

\* C24: a call of withTimeout settles with whichever came first - the action's
\* value or error when the action settled before the timer fired, the timeout
\* error when the timer fired first - and the later event never changes it.
C24_WithTimeout ==
    running = "withTimeout"
      => /\ wt.first = "none" <=> wt.outcome = "pending"
         /\ wt.first = "action"
              => wt.outcome = IF wt.action = "fulfilled" THEN "value" ELSE "actionError"
         /\ wt.first = "timer" => wt.outcome = "timeoutError" /\ wt.timer = "fired"
         /\ wt.first = "none" => wt.action \in {"notCalled", "pending"} /\ wt.timer # "fired"

\* C24 witness: the action was fulfilled first, the timer has fired since, and
\* the outcome is still the action's value.
C24_Witness ==
    /\ running = "withTimeout" /\ wt.first = "action" /\ wt.action = "fulfilled"
    /\ wt.timer = "fired" /\ wt.outcome = "value"

\* C28, as stated: the wait is registered before action starts, action is
\* invoked once, and a matching response that arrives at any moment during or
\* after action is never missed: the first one is taken and is the one returned.
C28_NeverMissed ==
    running = "waitForApiResponse"
      => /\ wr.actionCalls >= 1 => wr.waiter # "none"
         /\ wr.actionCalls = IF wr.pc \in {"start", "call"} THEN 0 ELSE 1
         /\ wr.arrivals >= 1 => wr.waiter = "matched" /\ wr.matched = 1
         /\ wr.outcome = "returned" => wr.result = 1

\* C28, amended: the wait is registered before action starts and action is
\* invoked once; the first matching response that arrives during or after
\* action, before the wait has timed out, is taken and is the one returned
\* when the call returns; when the wait times out first the call rejects once
\* action has finished, and no later response is taken.
C28_RegisteredBeforeAction ==
    running = "waitForApiResponse"
      => /\ wr.actionCalls >= 1 => wr.waiter # "none"
         /\ wr.actionCalls = IF wr.pc \in {"start", "call"} THEN 0 ELSE 1
         /\ (wr.arrivals >= 1 /\ wr.waiter # "timedOut")
              => wr.waiter = "matched" /\ wr.matched = 1
         /\ wr.waiter = "timedOut" => wr.matched = 0
         /\ wr.outcome = "returned" => wr.result = 1 /\ wr.waiter = "matched"
         /\ wr.outcome = "threwTimeout" => wr.waiter = "timedOut"

\* C28 witness: the matching response arrived while action was running, and
\* the call returned it.
C28_Witness ==
    /\ running = "waitForApiResponse" /\ wr.firstAt = "in_action"
    /\ wr.outcome = "returned" /\ wr.result = 1 /\ wr.arrivals = 2

\* C25, as stated: with both credentials set, the form is submitted with the
\* configured username in the username field and the configured password in
\* the password field; with either one empty the call throws 'Credentials not
\* found in environment variables' before it touches the page.
C25_EntersBothCredentials ==
    running = "loginWithCredentials"
      => /\ (EnvOrEmpty("TEST_USER_ADMIN_USERNAME") = ""
               \/ EnvOrEmpty("TEST_USER_ADMIN_PASSWORD") = "")
              => /\ ~lp.touched /\ lp.submittedUser = "-"
                 /\ lp.pc = "done" => lp.outcome = "threwCredentials"
         /\ lp.submittedUser # "-"
              => /\ lp.submittedUser = EnvOrEmpty("TEST_USER_ADMIN_USERNAME")
                 /\ lp.submittedPass = EnvOrEmpty("TEST_USER_ADMIN_PASSWORD")

\* C26: when clearAuthStates() has returned normally, no regular file is left
\* in the .auth directory, so that the state path is absent and the fixtures'
\* check calls for a login; the subdirectories are those there were; and with
\* no .auth directory the call raises nothing and removes nothing.
C26_ClearAuthStates ==
    running = "clearAuthStates"
      => /\ cas.outcome = "returned"
              => /\ {n \in cas.entries : IsFile(n)} = {}
                 /\ {n \in cas.entries : ~IsFile(n)} = {n \in cas.initial : ~IsFile(n)}
                 /\ ~existsSync(StateFileIn(cas.entries))
                 /\ isAuthStateStale(StateFileIn(cas.entries), now)
                 /\ cas.unlinks = Cardinality({n \in cas.initial : IsFile(n)})
         /\ ~cas.dirExists
              => /\ cas.outcome \in {"pending", "returned"}
                 /\ cas.unlinks = 0 /\ cas.entries = cas.initial

\* C26 witness: the directory held the state file, another file and a
\* subdirectory; the call has returned and only the subdirectory is left.
C26_Witness ==
    /\ running = "clearAuthStates" /\ cas.outcome = "returned"
    /\ cas.initial = AuthDirNames /\ cas.entries = {"screenshots"} /\ cas.unlinks = 2

\* C27, as stated: isAuthenticated returns false on the login page's URL and
\* true on a post-login URL, and never throws.
C27_IsAuthenticated ==
    (running = "isAuthenticated" /\ ia.pc = "done")
      => /\ ia.outcome = "returned"
         /\ ia.url = LoginPageUrl => ia.result = FALSE
         /\ (ia.url = InventoryUrl /\ ~ia.urlThrew) => ia.result = TRUE

====
